---- MODULE Spec2Model ----
(***************************************************************************)
(* A model of the playlist downloader of src/main.go: the orchestrator     *)
(* DownloadPlaylist with its goroutines, buffered-channel semaphore and    *)
(* WaitGroup; the item pipeline DownloadVideo; and the format selector.    *)
(***************************************************************************)
EXTENDS Integers, Sequences, FiniteSets, TLC

\* ------------------------------------------------------------------ bounds
MaxItems == 3
MaxParallel == 2
MaxFormats == 3

\* ------------------------------------------------------------------ state
VARIABLES
    pc,              \* position of the main goroutine (main / DownloadPlaylist)
    config,          \* DownloadConfig: Parallel, DownloadType
    playlist,        \* playlist.Videos: the sequence of titles (a title names its item)
    idx,             \* the range loop's position in playlist.Videos (1-based)
    semaphore,       \* number of elements buffered in the channel `semaphore`
    wg,              \* the WaitGroup's counter
    failedDownloads, \* the shared slice of failed titles
    wpc,             \* position of the goroutine launched for each item
    failedLog,       \* items whose "Failed to download" line was logged
    lastErr,         \* the error of the last failure line logged ("none" before any)
    snap,            \* the slice value a goroutine's append has read and not yet written back
    completed,       \* items whose "Completed" line was printed
    dvCalls,         \* number of DownloadVideo invocations per item
    summary,         \* the printed summary block (<<>> until printed)
    result,          \* DownloadPlaylist's return value ("none" until it returns)
    exitCode,        \* the process exit code (-1 while running)
    playlistFetched, \* the client resolved the playlist (GetPlaylist returned no error)
    dirCreated,      \* the file system created the output directory (MkdirAll returned no error)
    selFormats,      \* format selector: video.Formats
    selType,         \* format selector: pd.config.DownloadType
    selected,        \* format selector: what selectFormat returned
    selpc,           \* format selector: position of the call ("idle", "call", "returned")
    san,             \* name sanitizer: the title, the two outputs and the position
    dv               \* one goroutine's DownloadVideo calls, step by step

vars == <<pc, config, playlist, idx, semaphore, wg, failedDownloads, wpc, failedLog, lastErr,
          snap, completed, dvCalls, summary, result, exitCode, playlistFetched,
          dirCreated, selFormats, selType, selected, selpc, san, dv>>

orchVars == <<pc, config, playlist, idx, semaphore, wg, failedDownloads, wpc, failedLog, lastErr,
              snap, completed, dvCalls, summary, result, exitCode, playlistFetched,
              dirCreated>>

selVars == <<selFormats, selType, selected, selpc>>

\* What the orchestrator never touches.
otherVars == <<selVars, san, dv>>

Items == 1..MaxItems

\* ------------------------------------------------------- format descriptors
\* A MimeType is a sequence of characters, so that a prefix test is a real one.
MimeAudioMp4 == <<"a","u","d","i","o","/","m","p","4">>
MimeVideoMp4 == <<"v","i","d","e","o","/","m","p","4">>
MimeVideoWebm == <<"v","i","d","e","o","/","w","e","b","m">>
MimeText == <<"t","e","x","t">>

PrefixAudio == <<"a","u","d","i","o","/">>
PrefixVideo == <<"v","i","d","e","o","/">>

MimeTypes == {MimeAudioMp4, MimeVideoMp4, MimeVideoWebm, MimeText}
Qualities == {"tiny", "medium"}
Channels == {0, 2}

Format == [MimeType : MimeTypes, Quality : Qualities, AudioChannels : Channels]

\* strings.HasPrefix(s, prefix)
HasPrefix(s, prefix) ==
    /\ Len(s) >= Len(prefix)
    /\ SubSeq(s, 1, Len(prefix)) = prefix

\* A *youtube.Format is the index of the element of video.Formats it points to;
\* NilFormat is the nil pointer.
NilFormat == 0

\* What a call of a selector yields: a pointer (possibly nil), or a run-time panic.
Returned(f) == [panic |-> FALSE, format |-> f]
Panicked == [panic |-> TRUE, format |-> NilFormat]

\* ---------------------------------------------------------- format selector
\* selectBestAudioFormat, first loop, from index i on: a combined single pass
\* (a plausible slip: either test accepts a descriptor).
RECURSIVE AudioSinglePassScan(_, _)
AudioSinglePassScan(formats, i) ==
    IF i > Len(formats) THEN NilFormat
    ELSE IF \/ HasPrefix(formats[i].MimeType, PrefixAudio)
            \/ formats[i].AudioChannels > 0
         THEN i
         ELSE AudioSinglePassScan(formats, i + 1)

\* selectBestAudioFormat, first loop, from index i on.
RECURSIVE AudioOnlyScan(_, _)
AudioOnlyScan(formats, i) ==
    IF i > Len(formats) THEN NilFormat
    ELSE IF HasPrefix(formats[i].MimeType, PrefixAudio) THEN i
         ELSE AudioOnlyScan(formats, i + 1)

\* selectBestAudioFormat, second loop, from index i on.
RECURSIVE AudioChannelScan(_, _)
AudioChannelScan(formats, i) ==
    IF i > Len(formats) THEN NilFormat
    ELSE IF formats[i].AudioChannels > 0 THEN i
         ELSE AudioChannelScan(formats, i + 1)

selectBestAudioFormat(formats) ==
    LET first == AudioOnlyScan(formats, 1) IN
    IF first # NilFormat THEN first ELSE AudioChannelScan(formats, 1)

\* selectBestVideoFormat's loop with the first video descriptor always kept
\* (a plausible slip: the quality test dropped).
RECURSIVE VideoScanFirstWins(_, _, _)
VideoScanFirstWins(formats, i, bestFormat) ==
    IF i > Len(formats) THEN bestFormat
    ELSE IF /\ HasPrefix(formats[i].MimeType, PrefixVideo)
            /\ bestFormat = NilFormat
         THEN VideoScanFirstWins(formats, i + 1, i)
         ELSE VideoScanFirstWins(formats, i + 1, bestFormat)

\* selectBestVideoFormat's loop, from index i on, with bestFormat so far.
RECURSIVE VideoScan(_, _, _)
VideoScan(formats, i, bestFormat) ==
    IF i > Len(formats) THEN bestFormat
    ELSE IF /\ HasPrefix(formats[i].MimeType, PrefixVideo)
            /\ (bestFormat = NilFormat \/ formats[i].Quality # "tiny")
         THEN VideoScan(formats, i + 1, i)
         ELSE VideoScan(formats, i + 1, bestFormat)

selectBestVideoFormat(formats) == VideoScan(formats, 1, NilFormat)

\* selectFormat: &video.Formats[0] panics (index out of range) on an empty slice.
selectFormat(downloadType, formats) ==
    CASE downloadType = "audio" -> Returned(selectBestAudioFormat(formats))
      [] downloadType = "video" -> Returned(selectBestVideoFormat(formats))
      [] OTHER -> IF Len(formats) = 0 THEN Panicked ELSE Returned(1)

\* ------------------------------------------------------------ DownloadVideo
\* What the external collaborators answer during one DownloadVideo call: the
\* metadata client, the streaming client and the file system.
FormatSamples ==
    { <<>>,
      << [MimeType |-> MimeVideoMp4, Quality |-> "medium", AudioChannels |-> 2] >>,
      << [MimeType |-> MimeAudioMp4, Quality |-> "tiny", AudioChannels |-> 2] >>,
      << [MimeType |-> MimeText, Quality |-> "tiny", AudioChannels |-> 0] >> }

Responses ==
    [metaOk : BOOLEAN, formats : FormatSamples, streamOk : BOOLEAN,
     createOk : BOOLEAN, writeOk : BOOLEAN]

\* DownloadVideo's return value ("nil", or the error's message), given the
\* collaborators' answers r; "panic" when selectFormat panics.
DownloadVideo(downloadType, r) ==
    IF ~r.metaOk THEN "failed to get video info"
    ELSE LET format == selectFormat(downloadType, r.formats) IN
         IF format.panic THEN "panic"
         ELSE IF format.format = NilFormat THEN "no suitable format found"
         ELSE IF ~r.streamOk THEN "failed to get stream"
         ELSE IF ~r.createOk THEN "failed to create file"
         ELSE IF ~r.writeOk THEN "failed to save video"
         ELSE "nil"

\* ------------------------------------------------------------- orchestrator
DownloadTypes == {"audio", "video", "other"}

\* -p/--parallel takes any integer strconv.Atoi accepts.
ParallelValues == (0 - 1)..MaxParallel

NoSummary ==
    [printed |-> FALSE, total |-> 0, successful |-> 0, failed |-> 0,
     failedTitles |-> <<>>]

OrchInit ==
    /\ pc = "main"
    /\ config \in [Parallel : ParallelValues, DownloadType : DownloadTypes]
    /\ playlist = <<>>
    /\ idx = 0
    /\ semaphore = 0
    /\ wg = 0
    /\ failedDownloads = <<>>
    /\ wpc = [i \in Items |-> "idle"]
    /\ failedLog = {}
    /\ lastErr = "none"
    /\ snap = [i \in Items |-> <<>>]
    /\ completed = {}
    /\ dvCalls = [i \in Items |-> 0]
    /\ summary = NoSummary
    /\ result = "none"
    /\ exitCode = 0 - 1
    /\ playlistFetched = FALSE
    /\ dirCreated = FALSE

SelIdle ==
    /\ selFormats = <<>>
    /\ selType = "video"
    /\ selected = Returned(NilFormat)
    /\ selpc = "idle"

\* No sanitizeFileName call and no stepwise DownloadVideo call is under way.
SanIdle == san = [pc |-> "idle", name |-> <<>>, out |-> <<>>, out2 |-> <<>>]

\* The collaborators' answers before any call was made.
NoResponse ==
    [metaOk |-> FALSE, formats |-> <<>>, streamOk |-> FALSE, createOk |-> FALSE,
     writeOk |-> FALSE]

DVIdle ==
    dv = [pc |-> "idle", type |-> "video", resp |-> NoResponse, format |-> NilFormat,
          err |-> "none", defers |-> <<>>, openStreams |-> 0, openFiles |-> 0,
          trace |-> <<>>, calls |-> 0]

Init == OrchInit /\ SelIdle /\ SanIdle /\ DVIdle

\* main, after argument parsing: the download type is validated (and nothing else).
MainValidate ==
    /\ pc = "main"
    /\ IF config.DownloadType # "audio" /\ config.DownloadType # "video"
       THEN pc' = "exited" /\ exitCode' = 1
       ELSE pc' = "getPlaylist" /\ UNCHANGED exitCode
    /\ UNCHANGED <<config, playlist, idx, semaphore, wg, failedDownloads, wpc, failedLog, lastErr,
                   snap, completed, dvCalls, summary, result, playlistFetched,
                   dirCreated, otherVars>>

\* pd.client.GetPlaylist: an error returns at once; otherwise any playlist.
GetPlaylist ==
    /\ pc = "getPlaylist"
    /\ \/ /\ result' = "failed to get playlist"
          /\ pc' = "returned"
          /\ UNCHANGED <<playlist, playlistFetched>>
       \/ /\ \E n \in 0..MaxItems : playlist' = [i \in 1..n |-> i]
          /\ playlistFetched' = TRUE
          /\ pc' = "mkdir"
          /\ UNCHANGED result
    /\ UNCHANGED <<config, idx, semaphore, wg, failedDownloads, wpc, failedLog, lastErr, snap,
                   completed, dvCalls, summary, exitCode, dirCreated, otherVars>>

\* os.MkdirAll with its error ignored (a plausible slip: the return dropped).
MkdirAllIgnoreError ==
    /\ pc = "mkdir"
    /\ \E ok \in BOOLEAN : dirCreated' = ok
    /\ pc' = "makeSem"
    /\ UNCHANGED <<config, playlist, idx, semaphore, wg, failedDownloads, wpc, failedLog, lastErr,
                   snap, completed, dvCalls, summary, result, exitCode,
                   playlistFetched, otherVars>>

\* os.MkdirAll(pd.config.OutputDir, 0755)
MkdirAll ==
    /\ pc = "mkdir"
    /\ \/ /\ result' = "failed to create output directory"
          /\ pc' = "returned"
          /\ UNCHANGED dirCreated
       \/ /\ dirCreated' = TRUE
          /\ pc' = "makeSem"
          /\ UNCHANGED result
    /\ UNCHANGED <<config, playlist, idx, semaphore, wg, failedDownloads, wpc, failedLog, lastErr,
                   snap, completed, dvCalls, summary, exitCode, playlistFetched,
                   otherVars>>

\* make(chan struct{}, pd.config.Parallel): a negative size panics (exit code 2);
\* size 0 makes an unbuffered channel.
MakeSemaphore ==
    /\ pc = "makeSem"
    /\ IF config.Parallel < 0
       THEN pc' = "exited" /\ exitCode' = 2 /\ UNCHANGED <<semaphore, idx>>
       ELSE pc' = "loop" /\ semaphore' = 0 /\ idx' = 1 /\ UNCHANGED exitCode
    /\ UNCHANGED <<config, playlist, wg, failedDownloads, wpc, failedLog, lastErr, snap, completed,
                   dvCalls, summary, result, playlistFetched, dirCreated, otherVars>>

\* The range loop's head, and wg.Add(1) for the next video.
LoopHead ==
    /\ pc = "loop"
    /\ IF idx > Len(playlist)
       THEN pc' = "wait" /\ UNCHANGED wg
       ELSE pc' = "send" /\ wg' = wg + 1
    /\ UNCHANGED <<config, playlist, idx, semaphore, failedDownloads, wpc, failedLog, lastErr, snap,
                   completed, dvCalls, summary, result, exitCode, playlistFetched,
                   dirCreated, otherVars>>

\* semaphore <- struct{}{} on a channel with room for one element more than
\* configured (a plausible slip: an off-by-one capacity).
SendOffByOne ==
    /\ pc = "send"
    /\ semaphore <= config.Parallel
    /\ semaphore' = semaphore + 1
    /\ pc' = "go"
    /\ UNCHANGED <<config, playlist, idx, wg, failedDownloads, wpc, failedLog, lastErr, snap,
                   completed, dvCalls, summary, result, exitCode, playlistFetched,
                   dirCreated, otherVars>>

\* semaphore <- struct{}{} without waiting for room (a plausible slip: an
\* unbounded channel).
SendNoBlock ==
    /\ pc = "send"
    /\ semaphore' = semaphore + 1
    /\ pc' = "go"
    /\ UNCHANGED <<config, playlist, idx, wg, failedDownloads, wpc, failedLog, lastErr, snap,
                   completed, dvCalls, summary, result, exitCode, playlistFetched,
                   dirCreated, otherVars>>

\* semaphore <- struct{}{}: blocks while the buffer is full (no goroutine ever
\* receives concurrently with a send: a receive is a deferred call of a worker,
\* and it needs an element buffered).
Send ==
    /\ pc = "send"
    /\ semaphore < config.Parallel
    /\ semaphore' = semaphore + 1
    /\ pc' = "go"
    /\ UNCHANGED <<config, playlist, idx, wg, failedDownloads, wpc, failedLog, lastErr, snap,
                   completed, dvCalls, summary, result, exitCode, playlistFetched,
                   dirCreated, otherVars>>

\* go func(index, v) {...}(i, video)
Go ==
    /\ pc = "go"
    /\ wpc' = [wpc EXCEPT ![idx] = "start"]
    /\ idx' = idx + 1
    /\ pc' = "loop"
    /\ UNCHANGED <<config, playlist, semaphore, wg, failedDownloads, failedLog, lastErr, snap,
                   completed, dvCalls, summary, result, exitCode, playlistFetched,
                   dirCreated, otherVars>>

\* The summary reached without waiting (a plausible slip: wg.Wait() left out).
WaitNoBlock ==
    /\ pc = "wait"
    /\ pc' = "summary"
    /\ UNCHANGED <<config, playlist, idx, semaphore, wg, failedDownloads, wpc, failedLog, lastErr,
                   snap, completed, dvCalls, summary, result, exitCode,
                   playlistFetched, dirCreated, otherVars>>

\* wg.Wait()
Wait ==
    /\ pc = "wait"
    /\ wg = 0
    /\ pc' = "summary"
    /\ UNCHANGED <<config, playlist, idx, semaphore, wg, failedDownloads, wpc, failedLog, lastErr,
                   snap, completed, dvCalls, summary, result, exitCode,
                   playlistFetched, dirCreated, otherVars>>

\* The summary, with an error returned when a download failed (a plausible
\* slip: per-item failures made fatal).
SummaryFailing ==
    /\ pc = "summary"
    /\ summary' = [printed |-> TRUE,
                   total |-> Len(playlist),
                   successful |-> Len(playlist) - Len(failedDownloads),
                   failed |-> Len(failedDownloads),
                   failedTitles |-> failedDownloads]
    /\ result' = IF Len(failedDownloads) > 0 THEN "downloads failed" ELSE "nil"
    /\ pc' = "returned"
    /\ UNCHANGED <<config, playlist, idx, semaphore, wg, failedDownloads, wpc, failedLog, lastErr,
                   snap, completed, dvCalls, exitCode, playlistFetched, dirCreated,
                   otherVars>>

\* The summary block is printed and DownloadPlaylist returns nil.
Summary ==
    /\ pc = "summary"
    /\ summary' = [printed |-> TRUE,
                   total |-> Len(playlist),
                   successful |-> Len(playlist) - Len(failedDownloads),
                   failed |-> Len(failedDownloads),
                   failedTitles |-> failedDownloads]
    /\ result' = "nil"
    /\ pc' = "returned"
    /\ UNCHANGED <<config, playlist, idx, semaphore, wg, failedDownloads, wpc, failedLog, lastErr,
                   snap, completed, dvCalls, exitCode, playlistFetched, dirCreated,
                   otherVars>>

\* main after DownloadPlaylist returned: log.Fatal(err) exits with 1.
MainExit ==
    /\ pc = "returned"
    /\ exitCode' = IF result = "nil" THEN 0 ELSE 1
    /\ pc' = "exited"
    /\ UNCHANGED <<config, playlist, idx, semaphore, wg, failedDownloads, wpc, failedLog, lastErr,
                   snap, completed, dvCalls, summary, result, playlistFetched,
                   dirCreated, otherVars>>

\* ------------------------------------------------------------ the goroutines
\* A goroutine runs only while the process does.
Running(i) == pc # "exited" /\ i \in 1..Len(playlist)

\* The goroutine's first statements: the progress line, time.Now() and the
\* call of pd.DownloadVideo(v.ID).
WorkerStart(i) ==
    /\ Running(i)
    /\ wpc[i] = "start"
    /\ dvCalls' = [dvCalls EXCEPT ![i] = @ + 1]
    /\ wpc' = [wpc EXCEPT ![i] = "inDV"]
    /\ UNCHANGED <<pc, config, playlist, idx, semaphore, wg, failedDownloads, failedLog, lastErr,
                   snap, completed, summary, result, exitCode, playlistFetched,
                   dirCreated, otherVars>>

\* DownloadVideo returns; on nil the "Completed" line is printed, on an error
\* the failure is logged. A panic inside the call ends the process (exit code 2).
DVReturn(i) ==
    /\ Running(i)
    /\ wpc[i] = "inDV"
    /\ \E r \in Responses :
         LET e == DownloadVideo(config.DownloadType, r) IN
         IF e = "panic"
         THEN /\ pc' = "exited"
              /\ exitCode' = 2
              /\ UNCHANGED <<failedLog, lastErr, completed, wpc>>
         ELSE IF e = "nil"
         THEN /\ completed' = completed \cup {i}
              /\ wpc' = [wpc EXCEPT ![i] = "release"]
              /\ UNCHANGED <<pc, exitCode, failedLog, lastErr>>
         ELSE /\ failedLog' = failedLog \cup {i}
              /\ lastErr' = e
              /\ wpc' = [wpc EXCEPT ![i] = "failed"]
              /\ UNCHANGED <<pc, exitCode, completed>>
    /\ UNCHANGED <<config, playlist, idx, semaphore, wg, failedDownloads, snap,
                   dvCalls, summary, result, playlistFetched, dirCreated, otherVars>>

\* failedDownloads = append(failedDownloads, v.Title) is not atomic and no lock
\* is held: the goroutine first reads the shared slice ...
AppendRead(i) ==
    /\ Running(i)
    /\ wpc[i] = "failed"
    /\ snap' = [snap EXCEPT ![i] = failedDownloads]
    /\ wpc' = [wpc EXCEPT ![i] = "appendWrite"]
    /\ UNCHANGED <<pc, config, playlist, idx, semaphore, wg, failedDownloads, failedLog, lastErr,
                   completed, dvCalls, summary, result, exitCode, playlistFetched,
                   dirCreated, otherVars>>

\* The write-back with the title put in front (a plausible slip: a prepend).
AppendWriteFront(i) ==
    /\ Running(i)
    /\ wpc[i] = "appendWrite"
    /\ failedDownloads' = <<playlist[i]>> \o snap[i]
    /\ snap' = [snap EXCEPT ![i] = <<>>]
    /\ wpc' = [wpc EXCEPT ![i] = "release"]
    /\ UNCHANGED <<pc, config, playlist, idx, semaphore, wg, failedLog, lastErr, completed,
                   dvCalls, summary, result, exitCode, playlistFetched, dirCreated,
                   otherVars>>

\* The write-back of a goroutine that then skips its release (a plausible slip:
\* the slot given back on the success path only, not by a deferred call).
AppendWriteSkipRelease(i) ==
    /\ Running(i)
    /\ wpc[i] = "appendWrite"
    /\ failedDownloads' = Append(snap[i], playlist[i])
    /\ snap' = [snap EXCEPT ![i] = <<>>]
    /\ wpc' = [wpc EXCEPT ![i] = "wgDone"]
    /\ UNCHANGED <<pc, config, playlist, idx, semaphore, wg, failedLog, lastErr, completed,
                   dvCalls, summary, result, exitCode, playlistFetched, dirCreated,
                   otherVars>>

\* ... and later stores the slice it read, extended by its title. The data
\* race's outcomes are the interleavings of these two steps.
AppendWrite(i) ==
    /\ Running(i)
    /\ wpc[i] = "appendWrite"
    /\ failedDownloads' = Append(snap[i], playlist[i])
    /\ snap' = [snap EXCEPT ![i] = <<>>]
    /\ wpc' = [wpc EXCEPT ![i] = "release"]
    /\ UNCHANGED <<pc, config, playlist, idx, semaphore, wg, failedLog, lastErr, completed,
                   dvCalls, summary, result, exitCode, playlistFetched, dirCreated,
                   otherVars>>

\* The deferred func() { <-semaphore }(): the last-registered defer runs first.
Release(i) ==
    /\ Running(i)
    /\ wpc[i] = "release"
    /\ semaphore > 0
    /\ semaphore' = semaphore - 1
    /\ wpc' = [wpc EXCEPT ![i] = "wgDone"]
    /\ UNCHANGED <<pc, config, playlist, idx, wg, failedDownloads, failedLog, lastErr, snap,
                   completed, dvCalls, summary, result, exitCode, playlistFetched,
                   dirCreated, otherVars>>

\* wg.Done() on the success path only (a plausible slip: not deferred, and
\* skipped after a failure).
WgDoneOnlyOnSuccess(i) ==
    /\ Running(i)
    /\ wpc[i] = "wgDone"
    /\ wg' = IF i \in failedLog THEN wg ELSE wg - 1
    /\ wpc' = [wpc EXCEPT ![i] = "finished"]
    /\ UNCHANGED <<pc, config, playlist, idx, semaphore, failedDownloads, failedLog, lastErr, snap,
                   completed, dvCalls, summary, result, exitCode, playlistFetched,
                   dirCreated, otherVars>>

\* The deferred wg.Done().
WgDone(i) ==
    /\ Running(i)
    /\ wpc[i] = "wgDone"
    /\ wg' = wg - 1
    /\ wpc' = [wpc EXCEPT ![i] = "finished"]
    /\ UNCHANGED <<pc, config, playlist, idx, semaphore, failedDownloads, failedLog, lastErr, snap,
                   completed, dvCalls, summary, result, exitCode, playlistFetched,
                   dirCreated, otherVars>>

Worker(i) ==
    \/ WorkerStart(i)
    \/ DVReturn(i)
    \/ AppendRead(i)
    \/ AppendWrite(i)
    \/ Release(i)
    \/ WgDone(i)

Next ==
    \/ MainValidate
    \/ GetPlaylist
    \/ MkdirAll
    \/ MakeSemaphore
    \/ LoopHead
    \/ Send
    \/ Go
    \/ Wait
    \/ Summary
    \/ MainExit
    \/ \E i \in Items : Worker(i)

Spec == Init /\ [][Next]_vars

\* The main goroutine's steps.
MainNext ==
    \/ MainValidate
    \/ GetPlaylist
    \/ MkdirAll
    \/ MakeSemaphore
    \/ LoopHead
    \/ Send
    \/ Go
    \/ Wait
    \/ Summary
    \/ MainExit

\* Go's scheduler runs every goroutine that can run, and every call of a
\* collaborator (so every DownloadVideo call) eventually returns.
FairSpec ==
    /\ Spec
    /\ WF_vars(MainNext)
    /\ \A i \in Items : WF_vars(Worker(i))

\* ----------------------------------------------- the format selector, alone
\* Every descriptor sequence of at most MaxFormats descriptors.
FormatSeqs == UNION {[1..k -> Format] : k \in 0..MaxFormats}

OrchIdle ==
    /\ pc = "idle"
    /\ config = [Parallel |-> 1, DownloadType |-> "video"]
    /\ playlist = <<>>
    /\ idx = 0
    /\ semaphore = 0
    /\ wg = 0
    /\ failedDownloads = <<>>
    /\ wpc = [i \in Items |-> "idle"]
    /\ failedLog = {}
    /\ lastErr = "none"
    /\ snap = [i \in Items |-> <<>>]
    /\ completed = {}
    /\ dvCalls = [i \in Items |-> 0]
    /\ summary = NoSummary
    /\ result = "none"
    /\ exitCode = 0 - 1
    /\ playlistFetched = FALSE
    /\ dirCreated = FALSE

InitSelect ==
    /\ OrchIdle
    /\ SanIdle
    /\ DVIdle
    /\ selFormats \in FormatSeqs
    /\ selType \in DownloadTypes
    /\ selected = Returned(NilFormat)
    /\ selpc = "call"

\* One call pd.selectFormat(video) with video.Formats = selFormats.
Select ==
    /\ selpc = "call"
    /\ selected' = selectFormat(selType, selFormats)
    /\ selpc' = "returned"
    /\ UNCHANGED <<selFormats, selType, orchVars, san, dv>>

NextSelect == Select

SpecSelect == InitSelect /\ [][NextSelect]_vars

\* ----------------------------------------------------------- name sanitizer
\* A string is its sequence of bytes; a byte is written as a one-character
\* string, or as its two hex digits when it is not ASCII.
invalidChars == <<"\\", "/", ":", "*", "?", "\"", "<", ">", "|">>

\* len(name) > 100 and name[:100] count bytes.
TruncLen == 100

\* The UTF-8 encodings of the runes unicode.IsSpace accepts: the ASCII ones
\* (VT stands for 0x0B), U+0085, U+00A0, and of the three-byte ones U+3000.
SpaceRunes ==
    { <<" ">>, <<"\t">>, <<"\n">>, <<"VT">>, <<"\f">>, <<"\r">>,
      <<"C2", "85">>, <<"C2", "A0">>, <<"E3", "80", "80">> }

HasSuffix(s, suffix) ==
    /\ Len(s) >= Len(suffix)
    /\ SubSeq(s, Len(s) - Len(suffix) + 1, Len(s)) = suffix

\* strings.ReplaceAll(name, old, new) for a one-byte old and new.
ReplaceAll(name, old, new) ==
    [i \in 1..Len(name) |-> IF name[i] = old THEN new ELSE name[i]]

\* The loop over invalidChars, from its k-th element on.
RECURSIVE ReplaceInvalid(_, _)
ReplaceInvalid(name, k) ==
    IF k > Len(invalidChars) THEN name
    ELSE ReplaceInvalid(ReplaceAll(name, invalidChars[k], "_"), k + 1)

\* if len(name) > 100 { name = name[:100] }
Truncate(name) ==
    IF Len(name) > TruncLen THEN SubSeq(name, 1, TruncLen) ELSE name

\* strings.TrimSpace: whole white-space runes are removed from both ends; a
\* byte that begins no valid rune (a rune cut by the truncation) is not white space.
RECURSIVE TrimLeft(_)
TrimLeft(s) ==
    IF \E r \in SpaceRunes : HasPrefix(s, r)
    THEN LET r == CHOOSE q \in SpaceRunes : HasPrefix(s, q)
         IN TrimLeft(SubSeq(s, Len(r) + 1, Len(s)))
    ELSE s

RECURSIVE TrimRight(_)
TrimRight(s) ==
    IF \E r \in SpaceRunes : HasSuffix(s, r)
    THEN LET r == CHOOSE q \in SpaceRunes : HasSuffix(s, q)
         IN TrimRight(SubSeq(s, 1, Len(s) - Len(r)))
    ELSE s

TrimSpace(s) == TrimRight(TrimLeft(s))

\* sanitizeFileName with the trim done before the truncation (a plausible
\* slip: the last two steps exchanged).
sanitizeTrimFirst(name) == Truncate(TrimSpace(ReplaceInvalid(name, 1)))

sanitizeFileName(name) == TrimSpace(Truncate(ReplaceInvalid(name, 1)))

\* ------------------------------------------------ the name sanitizer, alone
\* Titles are at most MaxBlocks runs; a run repeats one unit 0, 1, TruncLen - 1
\* or TruncLen times, so that titles reach beyond the truncation.
MaxBlocks == 3

Units == { <<" ">>, <<"a">>, <<"/">>, <<"C2", "A0">> }
RunLengths == {0, 1, TruncLen - 1, TruncLen}

RECURSIVE Rep(_, _)
Rep(unit, n) == IF n = 0 THEN <<>> ELSE unit \o Rep(unit, n - 1)

Runs == {Rep(u, n) : u \in Units, n \in RunLengths}

RECURSIVE TitlesOf(_)
TitlesOf(k) ==
    IF k = 0 THEN {<<>>}
    ELSE {t \o r : t \in TitlesOf(k - 1), r \in Runs}

Titles == TitlesOf(MaxBlocks)

InitSanitize ==
    /\ OrchIdle
    /\ SelIdle
    /\ DVIdle
    /\ san \in [pc : {"call"}, name : Titles, out : {<<>>}, out2 : {<<>>}]

\* fileName := sanitizeFileName(video.Title)
Sanitize ==
    /\ san.pc = "call"
    /\ san' = [san EXCEPT !.pc = "returned", !.out = sanitizeFileName(san.name)]
    /\ UNCHANGED <<orchVars, selVars, dv>>

\* sanitizeFileName applied to its own output.
SanitizeAgain ==
    /\ san.pc = "returned"
    /\ san' = [san EXCEPT !.pc = "again", !.out2 = sanitizeFileName(san.out)]
    /\ UNCHANGED <<orchVars, selVars, dv>>

NextSanitize == Sanitize \/ SanitizeAgain

SpecSanitize == InitSanitize /\ [][NextSanitize]_vars

\* --------------------------------------------- DownloadVideo, step by step
\* The calls made on one goroutine, one after another.
MaxCalls == 2

DVSteps == <<"GetVideo", "selectFormat", "GetStream", "Create", "ReadFrom">>

InitDV ==
    /\ OrchIdle
    /\ SelIdle
    /\ SanIdle
    /\ dv \in [pc : {"idle"}, type : DownloadTypes, resp : {NoResponse},
               format : {NilFormat}, err : {"none"}, defers : {<<>>},
               openStreams : {0}, openFiles : {0}, trace : {<<>>}, calls : {0}]

\* pd.DownloadVideo(v.ID): a call starts; the collaborators' answers are fixed
\* here and looked up when the call reaches them.
DVCall ==
    /\ dv.pc \in {"idle", "returned"}
    /\ dv.calls < MaxCalls
    /\ \E r \in Responses :
         dv' = [dv EXCEPT !.pc = "getVideo", !.resp = r, !.format = NilFormat,
                          !.err = "none", !.defers = <<>>, !.trace = <<>>]
    /\ UNCHANGED <<orchVars, selVars, san>>

\* video, err := pd.client.GetVideo(videoID); if err != nil { return ... }
DVGetVideo ==
    /\ dv.pc = "getVideo"
    /\ dv' = IF dv.resp.metaOk
             THEN [dv EXCEPT !.pc = "select", !.trace = Append(@, "GetVideo")]
             ELSE [dv EXCEPT !.pc = "defers", !.trace = Append(@, "GetVideo"),
                             !.err = "failed to get video info"]
    /\ UNCHANGED <<orchVars, selVars, san>>

\* The selection with its nil check left out (a plausible slip): the call goes
\* on to open the stream with no format.
DVSelectNoCheck ==
    /\ dv.pc = "select"
    /\ LET f == selectFormat(dv.type, dv.resp.formats) IN
       dv' = IF f.panic
             THEN [dv EXCEPT !.pc = "panicked", !.trace = Append(@, "selectFormat"),
                             !.err = "panic"]
             ELSE [dv EXCEPT !.pc = "getStream", !.trace = Append(@, "selectFormat"),
                             !.format = f.format]
    /\ UNCHANGED <<orchVars, selVars, san>>

\* format := pd.selectFormat(video); if format == nil { return ... }. A panic of
\* selectFormat ends the process. The file path is then computed from the title
\* and the format; that computation has no effect outside the call.
DVSelect ==
    /\ dv.pc = "select"
    /\ LET f == selectFormat(dv.type, dv.resp.formats) IN
       dv' = IF f.panic
             THEN [dv EXCEPT !.pc = "panicked", !.trace = Append(@, "selectFormat"),
                             !.err = "panic"]
             ELSE IF f.format = NilFormat
             THEN [dv EXCEPT !.pc = "defers", !.trace = Append(@, "selectFormat"),
                             !.err = "no suitable format found"]
             ELSE [dv EXCEPT !.pc = "getStream", !.trace = Append(@, "selectFormat"),
                             !.format = f.format]
    /\ UNCHANGED <<orchVars, selVars, san>>

\* stream, _, err := pd.client.GetStream(video, format); if err != nil
\* { return ... }; defer stream.Close()
DVGetStream ==
    /\ dv.pc = "getStream"
    /\ dv' = IF dv.resp.streamOk
             THEN [dv EXCEPT !.pc = "create", !.trace = Append(@, "GetStream"),
                             !.openStreams = @ + 1,
                             !.defers = <<"stream.Close">> \o @]
             ELSE [dv EXCEPT !.pc = "defers", !.trace = Append(@, "GetStream"),
                             !.err = "failed to get stream"]
    /\ UNCHANGED <<orchVars, selVars, san>>

\* The file creation without its deferred Close (a plausible slip: the file
\* closed by hand on the success path only).
DVCreateNoDefer ==
    /\ dv.pc = "create"
    /\ dv' = IF dv.resp.createOk
             THEN [dv EXCEPT !.pc = "readFrom", !.trace = Append(@, "Create"),
                             !.openFiles = @ + 1,
                             !.defers = IF dv.resp.writeOk
                                        THEN <<"file.Close">> \o @ ELSE @]
             ELSE [dv EXCEPT !.pc = "defers", !.trace = Append(@, "Create"),
                             !.err = "failed to create file"]
    /\ UNCHANGED <<orchVars, selVars, san>>

\* file, err := os.Create(filePath); if err != nil { return ... };
\* defer file.Close()
DVCreate ==
    /\ dv.pc = "create"
    /\ dv' = IF dv.resp.createOk
             THEN [dv EXCEPT !.pc = "readFrom", !.trace = Append(@, "Create"),
                             !.openFiles = @ + 1,
                             !.defers = <<"file.Close">> \o @]
             ELSE [dv EXCEPT !.pc = "defers", !.trace = Append(@, "Create"),
                             !.err = "failed to create file"]
    /\ UNCHANGED <<orchVars, selVars, san>>

\* _, err = file.ReadFrom(stream); if err != nil { return ... }; return nil
DVReadFrom ==
    /\ dv.pc = "readFrom"
    /\ dv' = [dv EXCEPT !.pc = "defers", !.trace = Append(@, "ReadFrom"),
                        !.err = IF dv.resp.writeOk THEN "nil"
                                ELSE "failed to save video"]
    /\ UNCHANGED <<orchVars, selVars, san>>

\* A return statement runs the deferred calls, the last registered first.
DVRunDefer ==
    /\ dv.pc = "defers"
    /\ dv.defers # <<>>
    /\ dv' = [dv EXCEPT !.defers = Tail(@),
                        !.trace = Append(@, Head(dv.defers)),
                        !.openStreams = IF Head(dv.defers) = "stream.Close"
                                        THEN @ - 1 ELSE @,
                        !.openFiles = IF Head(dv.defers) = "file.Close"
                                      THEN @ - 1 ELSE @]
    /\ UNCHANGED <<orchVars, selVars, san>>

\* ... and then the call returns to its caller.
DVExit ==
    /\ dv.pc = "defers"
    /\ dv.defers = <<>>
    /\ dv' = [dv EXCEPT !.pc = "returned", !.calls = @ + 1]
    /\ UNCHANGED <<orchVars, selVars, san>>

NextDV ==
    \/ DVCall
    \/ DVGetVideo
    \/ DVSelect
    \/ DVGetStream
    \/ DVCreate
    \/ DVReadFrom
    \/ DVRunDefer
    \/ DVExit

SpecDV == InitDV /\ [][NextDV]_vars

\* ------------------------------------------------------------------ claims
SetMin(S) == CHOOSE x \in S : \A y \in S : x <= y
SetMax(S) == CHOOSE x \in S : \A y \in S : y <= x

PureAudio == {i \in 1..Len(selFormats) : HasPrefix(selFormats[i].MimeType, PrefixAudio)}
WithChannels == {i \in 1..Len(selFormats) : selFormats[i].AudioChannels > 0}
VideoDescs == {i \in 1..Len(selFormats) : HasPrefix(selFormats[i].MimeType, PrefixVideo)}
NonTinyVideo == {i \in VideoDescs : selFormats[i].Quality # "tiny"}

\* C8: in audio mode the selector returns the first descriptor whose media type
\* begins with "audio/" if one exists anywhere in the sequence; only if none
\* exists, the first descriptor with audio channels > 0; and nil exactly when
\* neither exists.
C8_AudioPolicy ==
    (selpc = "returned" /\ selType = "audio") =>
        /\ ~selected.panic
        /\ PureAudio # {} => selected.format = SetMin(PureAudio)
        /\ (PureAudio = {} /\ WithChannels # {}) =>
               selected.format = SetMin(WithChannels)
        /\ selected.format = NilFormat <=> (PureAudio = {} /\ WithChannels = {})

\* C8 witness: a descriptor with channels precedes a pure-audio one, and the
\* pure-audio one was returned.
C8_Witness ==
    /\ selpc = "returned"
    /\ selType = "audio"
    /\ Len(selFormats) = 2
    /\ selFormats[1].MimeType = MimeVideoMp4
    /\ selFormats[1].AudioChannels = 2
    /\ selFormats[2].MimeType = MimeAudioMp4
    /\ selected.format = 2

\* C9 as stated: in video mode the selector returns the last non-"tiny" video
\* descriptor when one exists, a "tiny" descriptor only if it is the only video
\* descriptor present, and nil exactly when no video descriptor exists.
C9_VideoPolicyAsStated ==
    (selpc = "returned" /\ selType = "video") =>
        /\ ~selected.panic
        /\ NonTinyVideo # {} => selected.format = SetMax(NonTinyVideo)
        /\ (selected.format # NilFormat /\ selFormats[selected.format].Quality = "tiny")
               => VideoDescs = {selected.format}
        /\ selected.format = NilFormat <=> VideoDescs = {}

\* C9 amended: in video mode the selector returns the last non-"tiny" video
\* descriptor when one exists; when every video descriptor is "tiny" it returns
\* the first video descriptor; and nil exactly when no video descriptor exists.
C9_VideoPolicy ==
    (selpc = "returned" /\ selType = "video") =>
        /\ ~selected.panic
        /\ NonTinyVideo # {} => selected.format = SetMax(NonTinyVideo)
        /\ (NonTinyVideo = {} /\ VideoDescs # {}) =>
               selected.format = SetMin(VideoDescs)
        /\ selected.format = NilFormat <=> VideoDescs = {}

\* C9 witness: two video descriptors, both "tiny", follow a non-video one, and
\* the first of the two was returned.
C9_Witness ==
    /\ selpc = "returned"
    /\ selType = "video"
    /\ Len(selFormats) = 3
    /\ VideoDescs = {2, 3}
    /\ NonTinyVideo = {}
    /\ selected.format = 2

\* C10: for every download type and every descriptor sequence, the empty one
\* included, selectFormat returns a descriptor of the sequence or nil and never
\* panics.
C10_SelectorTotal ==
    selpc = "returned" =>
        /\ ~selected.panic
        /\ selected.format \in 0..Len(selFormats)

Videos == 1..Len(playlist)
InPipeline == {i \in Items : wpc[i] = "inDV"}
InAppend == {i \in Items : wpc[i] = "appendWrite"}
TimesListed(title) ==
    Cardinality({k \in 1..Len(failedDownloads) : failedDownloads[k] = title})
Outcomes(i) == (IF i \in completed THEN 1 ELSE 0) + TimesListed(playlist[i])

\* C1: when DownloadPlaylist returns, DownloadVideo was invoked exactly once for
\* each item and each item produced exactly one outcome: a "Completed" line or
\* one entry of the failed list.
C1_OneOutcomePerItem ==
    result = "nil" =>
        \A i \in Videos : dvCalls[i] = 1 /\ Outcomes(i) = 1

\* C2: with Parallel >= 1, at most Parallel goroutines are ever between the
\* start and the return of DownloadVideo.
C2_ConcurrencyBound ==
    config.Parallel >= 1 => Cardinality(InPipeline) <= config.Parallel

\* C2 witness: Parallel = 2, three items: two goroutines are inside
\* DownloadVideo while the dispatch loop waits for a slot for the third.
C2_Witness ==
    /\ config.Parallel = 2
    /\ Len(playlist) = 3
    /\ Cardinality(InPipeline) = 2
    /\ pc = "send"
    /\ semaphore = 2

\* C3: no two goroutines are at once between the read and the write-back of
\* the shared slice failedDownloads.
C3_AppendExclusive == Cardinality(InAppend) <= 1

\* C4: the summary reports total = n, failed = the number of items whose
\* DownloadVideo returned an error, successful = n - failed, and the failed
\* titles are exactly the titles of the failed items, each once.
C4_SummaryExact ==
    summary.printed =>
        /\ summary.total = Len(playlist)
        /\ summary.failed = Cardinality(failedLog)
        /\ summary.successful = Len(playlist) - Cardinality(failedLog)
        /\ Len(summary.failedTitles) = Cardinality(failedLog)
        /\ {summary.failedTitles[k] : k \in 1..Len(summary.failedTitles)}
               = {playlist[i] : i \in failedLog}

\* C5: once an item has failed, the run is not aborted: DownloadPlaylist never
\* returns an error, the run can always take a further step until the process
\* exits, when it returns every item's DownloadVideo was invoked and its
\* goroutine ran to completion, and the exit code is 0.
C5_FailureDoesNotAbort ==
    failedLog # {} =>
        /\ result \in {"none", "nil"}
        /\ pc # "exited" => ENABLED Next
        /\ result = "nil" => \A i \in Videos : dvCalls[i] = 1 /\ wpc[i] = "finished"
        /\ pc = "exited" => exitCode = 0

\* C5 witness: a three-item run has exited with code 0 after a stream-open
\* failure of one item and a completed download of another.
C5_Witness ==
    /\ pc = "exited"
    /\ exitCode = 0
    /\ Len(playlist) = 3
    /\ lastErr = "failed to get stream"
    /\ failedLog # {}
    /\ completed # {}

\* C6: a run with Parallel < 1 is rejected at startup: once main is past its
\* validation the process has exited with code 1, the playlist was not
\* resolved and the semaphore was never made.
C6_ParallelRejectedAtStartup ==
    (config.Parallel < 1 /\ pc # "main") =>
        /\ pc = "exited"
        /\ exitCode = 1
        /\ ~playlistFetched
        /\ \A i \in Items : dvCalls[i] = 0

\* C7: DownloadPlaylist returns an error if and only if the playlist resolution
\* or the output-directory creation failed, and then no goroutine was launched,
\* no DownloadVideo was invoked and no summary was printed; no goroutine is
\* launched before both steps succeeded.
C7_ErrorIffFatalStep ==
    /\ result # "none" => (result # "nil" <=> ~(playlistFetched /\ dirCreated))
    /\ result \notin {"none", "nil"} =>
           /\ \A i \in Items : wpc[i] = "idle" /\ dvCalls[i] = 0
           /\ wg = 0
           /\ ~summary.printed
           /\ pc = "exited" => exitCode = 1
    /\ (\E i \in Items : wpc[i] # "idle") => (playlistFetched /\ dirCreated)

\* C7 witness: a three-item playlist was resolved, the directory creation
\* failed and the process exited with code 1.
C7_Witness ==
    /\ pc = "exited"
    /\ exitCode = 1
    /\ result = "failed to create output directory"
    /\ playlistFetched
    /\ Len(playlist) = 3

\* A string made of white-space runes only (the empty string included): every
\* byte lies inside an occurrence of a white-space rune's encoding.
IsBlank(s) ==
    \A i \in 1..Len(s) :
        \E r \in SpaceRunes :
            \E j \in (i - Len(r) + 1)..i :
                /\ j >= 1
                /\ j + Len(r) - 1 <= Len(s)
                /\ SubSeq(s, j, j + Len(r) - 1) = r

\* C11: sanitizeFileName returns the empty string only if the title was empty
\* or consisted only of white space.
C11_EmptyOnlyIfBlank ==
    (san.pc # "call" /\ san.pc # "idle" /\ san.out = <<>>) => IsBlank(san.name)

\* C12: sanitizeFileName is idempotent, and every output has none of the
\* characters \ / : * ? " < > |, at most 100 bytes, and no leading or trailing
\* white space.
C12_Idempotent ==
    /\ san.pc = "again" => san.out2 = san.out
    /\ san.pc \in {"returned", "again"} =>
           /\ \A i \in 1..Len(san.out) :
                  \A k \in 1..Len(invalidChars) : san.out[i] # invalidChars[k]
           /\ Len(san.out) <= TruncLen
           /\ \A r \in SpaceRunes : ~HasPrefix(san.out, r) /\ ~HasSuffix(san.out, r)

\* C12 witness: a title longer than 100 bytes with a forbidden character and
\* leading white space was sanitized twice, to a non-empty name that ends
\* where the truncation cut it.
C12_Witness ==
    /\ san.pc = "again"
    /\ Len(san.name) > TruncLen
    /\ HasPrefix(san.name, <<" ">>)
    /\ \E i \in 1..Len(san.name) : san.name[i] = "/"
    /\ san.out # <<>>
    /\ \E i \in 1..Len(san.out) : san.out[i] = "_"

\* Goroutines that were launched and have not yet given their slot back.
Holding ==
    {i \in Items : wpc[i] \in {"start", "inDV", "failed", "appendWrite", "release"}}
\* Goroutines that were launched and have not yet signalled the barrier.
Unfinished == {i \in Items : wpc[i] \notin {"idle", "finished"}}
Increasing(s) == \A k, l \in 1..Len(s) : k < l => s[k] < s[l]

\* C13: the summary is computed only after every launched goroutine has signalled
\* the barrier: from the moment DownloadPlaylist is past wg.Wait(), every item's
\* goroutine has finished, none is inside DownloadVideo or inside the append,
\* so the failed list the summary reads is no longer written.
C13_SummaryAfterBarrier ==
    (pc = "summary" \/ summary.printed \/ result = "nil") =>
        /\ wg = 0
        /\ idx = Len(playlist) + 1
        /\ \A i \in Videos : wpc[i] = "finished" /\ snap[i] = <<>> /\ dvCalls[i] = 1
        /\ summary.printed => summary.failedTitles = failedDownloads

\* C13 witness: three items, two slots, two failures, and the main goroutine is
\* past the barrier, about to compute the summary.
C13_Witness ==
    /\ pc = "summary"
    /\ config.Parallel = 2
    /\ Len(playlist) = 3
    /\ Cardinality(failedLog) = 2

C15_Terminates ==
    /\ (config.Parallel >= 1) => <>(pc = "exited")
    /\ (pc = "makeSem" /\ config.Parallel >= 1)
           ~> (summary.printed /\ result = "nil" /\ \A i \in Videos : wpc[i] = "finished")

\* C15 witness: one slot, three items, all three failed, summary printed and
\* the process ended normally.
C15_Witness ==
    /\ config.Parallel = 1
    /\ Len(playlist) = 3
    /\ failedLog = Videos
    /\ summary.printed
    /\ pc = "exited"
    /\ exitCode = 0

\* C18: with Parallel = 0 and a playlist that is not empty, a DownloadPlaylist
\* that reaches the gate stays at its first send: nothing can step (the channel
\* has no buffer and no goroutine exists to receive), no goroutine is launched,
\* DownloadVideo is not called and the summary is not reached.
C18_ParallelZeroBlocks ==
    (config.Parallel = 0 /\ Len(playlist) > 0 /\ dirCreated) =>
        /\ pc \in {"makeSem", "loop", "send"}
        /\ idx <= 1
        /\ pc = "send" => ~ENABLED Next
        /\ \A i \in Items : wpc[i] = "idle" /\ dvCalls[i] = 0
        /\ ~summary.printed
        /\ result = "none"
        /\ exitCode = 0 - 1

\* C18 witness: Parallel = 0, three items, the main goroutine at the first send
\* with the barrier already counting the first item.
C18_Witness ==
    /\ config.Parallel = 0
    /\ Len(playlist) = 3
    /\ pc = "send"
    /\ idx = 1
    /\ wg = 1
    /\ semaphore = 0

\* C19: with Parallel = 1 the downloads are sequential: a goroutine is launched
\* only after every earlier one has given its slot back (so it has left
\* DownloadVideo and finished its append), at most one goroutine is inside the
\* append, and the failed list holds exactly the failed items that got past the
\* append, each once, in playlist order.
C19_SequentialWhenOne ==
    config.Parallel = 1 =>
        /\ \A i, j \in Videos :
              (i < j /\ wpc[j] # "idle") => wpc[i] \in {"wgDone", "finished"}
        /\ Cardinality(Holding) <= 1
        /\ Increasing(failedDownloads)
        /\ \A i \in Videos :
              TimesListed(playlist[i]) =
                  IF i \in failedLog /\ wpc[i] \in {"release", "wgDone", "finished"}
                  THEN 1 ELSE 0

\* C19 witness: one slot, three items, all failed, and DownloadPlaylist returned
\* with the three titles listed in playlist order.
C19_Witness ==
    /\ config.Parallel = 1
    /\ result = "nil"
    /\ failedDownloads = <<1, 2, 3>>
    /\ playlist = <<1, 2, 3>>

\* C20: with Parallel >= 1 every slot taken is given back exactly once: the
\* slots in use are those of the goroutines that have not yet released plus
\* the one the dispatch loop has just taken, a goroutine releases before it
\* signals the barrier, and when DownloadPlaylist returns no slot is in use.
C20_SlotsBalanced ==
    config.Parallel >= 1 =>
        /\ semaphore = Cardinality(Holding) + (IF pc = "go" THEN 1 ELSE 0)
        /\ semaphore <= config.Parallel
        /\ wg = Cardinality(Unfinished) + (IF pc \in {"send", "go"} THEN 1 ELSE 0)
        /\ Holding \subseteq Unfinished
        /\ result = "nil" => semaphore = 0 /\ Holding = {}

\* C20 witness: two slots, a failed goroutine that has stored its title and
\* still holds its slot while the dispatch loop has taken the second slot.
C20_Witness ==
    /\ config.Parallel = 2
    /\ pc = "go"
    /\ semaphore = 2
    /\ \E i \in Videos : wpc[i] = "release" /\ i \in failedLog

\* The steps of the current DownloadVideo call, in the order they ran.
Did(step) == \E k \in 1..Len(dv.trace) : dv.trace[k] = step
Times(step) == Cardinality({k \in 1..Len(dv.trace) : dv.trace[k] = step})
Pending(call) == Cardinality({k \in 1..Len(dv.defers) : dv.defers[k] = call})
\* The steps without the deferred calls.
StepsRun == SelectSeq(dv.trace, LAMBDA s : s \notin {"stream.Close", "file.Close"})

\* C16: DownloadVideo runs its steps in order, each at most once, and leaves at
\* the first failure: after a failed metadata resolution nothing else ran;
\* after a selection that returned no format the error is "no suitable format
\* found" and no stream was opened and no file created; after a failed stream
\* open no file was created; and the value returned is the one of the first
\* failing step.
C16_OrderedEarlyExit ==
    /\ StepsRun = SubSeq(DVSteps, 1, Len(StepsRun))
    /\ (Did("GetVideo") /\ ~dv.resp.metaOk) =>
           /\ StepsRun = <<"GetVideo">>
           /\ dv.err = "failed to get video info"
    /\ (Did("selectFormat") /\ dv.pc # "panicked" /\ dv.format = NilFormat) =>
           /\ StepsRun = <<"GetVideo", "selectFormat">>
           /\ dv.err = "no suitable format found"
           /\ dv.openStreams = 0 /\ dv.openFiles = 0
    /\ (Did("GetStream") /\ ~dv.resp.streamOk) =>
           /\ ~Did("Create")
           /\ dv.openFiles = 0
           /\ dv.err = "failed to get stream"
    /\ Did("GetStream") => dv.resp.metaOk /\ dv.format # NilFormat
    /\ Did("Create") => dv.resp.streamOk
    /\ dv.pc = "returned" => dv.err = DownloadVideo(dv.type, dv.resp)
    /\ dv.pc = "panicked" => DownloadVideo(dv.type, dv.resp) = "panic"

\* C16 witness: a call returned "no suitable format found" having run the
\* metadata resolution and the selection and nothing else.
C16_Witness ==
    /\ dv.pc = "returned"
    /\ dv.err = "no suitable format found"
    /\ dv.trace = <<"GetVideo", "selectFormat">>

\* C17: every stream opened and every file created by a DownloadVideo call is
\* closed when the call returns, on every exit path: the handles open during a
\* call are exactly those with a deferred Close pending, each is closed once,
\* and between calls no handle is open.
C17_HandlesClosed ==
    /\ dv.openStreams = Pending("stream.Close")
    /\ dv.openFiles = Pending("file.Close")
    /\ dv.pc \in {"idle", "returned", "getVideo"} =>
           dv.openStreams = 0 /\ dv.openFiles = 0
    /\ dv.pc = "returned" =>
           /\ Times("stream.Close") =
                  (IF Did("GetStream") /\ dv.resp.streamOk THEN 1 ELSE 0)
           /\ Times("file.Close") =
                  (IF Did("Create") /\ dv.resp.createOk THEN 1 ELSE 0)

\* C17 witness: the second call in a row returned after a failed write, with
\* the file and the stream closed, in that order.
C17_Witness ==
    /\ dv.pc = "returned"
    /\ dv.calls = MaxCalls
    /\ dv.err = "failed to save video"
    /\ dv.trace = <<"GetVideo", "selectFormat", "GetStream", "Create", "ReadFrom",
                    "file.Close", "stream.Close">>

====
